---- MODULE Spec2Model ----
(***************************************************************************)
(* TNB_rate.py: generation of the TNB time-of-use price series and its     *)
(* export to tnb_tou_price.csv.                                            *)
(*                                                                         *)
(* A pandas Timestamp is modelled by its integer value, counted in seconds *)
(* since 1970-01-01 00:00:00 (pandas counts nanoseconds; every instant of  *)
(* this program is a whole second).  Prices are in hundredths of a sen.    *)
(***************************************************************************)
EXTENDS Integers, Sequences, FiniteSets

VARIABLES
    start_date,         \* argument: the civil date-time the string denotes
    num_days,           \* argument
    time_step_minutes,  \* argument
    pc,                 \* position of the program
    call,               \* 1 = first call of the function, 2 = a repeated call
    end_date,           \* local of generate_tnb_tou_data
    time_index,         \* local: the DatetimeIndex, a sequence of instants
    prices,             \* local: the list of prices
    it,                 \* position of the for loop in time_index
    df,                 \* the returned DataFrame, a sequence of rows
    prev,               \* the table the first call returned
    file,               \* tnb_tou_price.csv: whether it exists, and its lines
    w,                  \* next row to_csv writes
    stdout              \* what the program printed

vars == << start_date, num_days, time_step_minutes, pc, call, end_date,
           time_index, prices, it, df, prev, file, w, stdout >>

(***************************************************************************)
(* Program constants                                                       *)
(***************************************************************************)
PRICE_OFF_PEAK == 3443
PRICE_PEAK == 3852
PEAK_START_HOUR == 14
PEAK_END_HOUR == 22
NUM_DAYS_FOR_TRAINING == 30
DefaultTimeStep == 15

(***************************************************************************)
(* Bounds of the model                                                     *)
(***************************************************************************)
MaxDays == 3

DaySet == -1 .. MaxDays
StepSet == {-15, 0, 15, 30, 45, 60, 1000, 5000}

Date(y, m, d, h, mi) ==
    [year |-> y, month |-> m, day |-> d, hour |-> h, minute |-> mi, second |-> 0]

DefaultStart == Date(2025, 1, 6, 0, 0)

\* the start_date strings tried; the last one is no calendar date
StartDates ==
    { DefaultStart,
      Date(2025, 1, 10, 0, 0),
      Date(2025, 1, 11, 0, 0),
      Date(2025, 1, 6, 13, 30),
      Date(2024, 2, 28, 21, 50),
      Date(2025, 2, 30, 0, 0) }

(***************************************************************************)
(* Calendar arithmetic of pandas                                           *)
(***************************************************************************)
SecondsPerMinute == 60
SecondsPerDay == 86400

\* Python's // (floor division), for either sign of the divisor
FloorDiv(a, b) == IF b > 0 THEN a \div b ELSE (0 - a) \div (0 - b)

IsLeap(y) == (y % 4 = 0 /\ y % 100 # 0) \/ y % 400 = 0

DaysInMonth(y, m) ==
    IF m = 2 THEN (IF IsLeap(y) THEN 29 ELSE 28)
    ELSE IF m \in {4, 6, 9, 11} THEN 30 ELSE 31

IsValidDate(s) ==
    /\ s.month \in 1..12
    /\ s.day \in 1..DaysInMonth(s.year, s.month)
    /\ s.hour \in 0..23
    /\ s.minute \in 0..59
    /\ s.second \in 0..59

\* days from 1970-01-01 to the civil date y-m-d (proleptic Gregorian)
DaysFromCivil(y, m, d) ==
    LET yy  == IF m <= 2 THEN y - 1 ELSE y
        era == yy \div 400
        yoe == yy - era * 400
        mp  == IF m > 2 THEN m - 3 ELSE m + 9
        doy == (153 * mp + 2) \div 5 + d - 1
        doe == yoe * 365 + yoe \div 4 - yoe \div 100 + doy
    IN  era * 146097 + doe - 719468

\* pd.to_datetime(start_date), for a string that denotes a calendar date
ToDatetime(s) ==
    DaysFromCivil(s.year, s.month, s.day) * SecondsPerDay
        + s.hour * 3600 + s.minute * 60 + s.second

\* the civil date of a day number: the inverse of DaysFromCivil
CivilFromDays(z0) ==
    LET z   == z0 + 719468
        era == z \div 146097
        doe == z - era * 146097
        yoe == (doe - doe \div 1460 + doe \div 36524 - doe \div 146096) \div 365
        doy == doe - (365 * yoe + yoe \div 4 - yoe \div 100)
        mp  == (5 * doy + 2) \div 153
        d   == doy - (153 * mp + 2) \div 5 + 1
        m   == IF mp < 10 THEN mp + 3 ELSE mp - 9
        y   == yoe + era * 400 + (IF m <= 2 THEN 1 ELSE 0)
    IN  [year |-> y, month |-> m, day |-> d]

\* Timestamp.hour
Hour(t) == (t % SecondsPerDay) \div 3600

DayOfWeekSundayZero(t) == ((t \div SecondsPerDay) + 4) % 7

\* Timestamp.dayofweek: 0 = Monday .. 6 = Sunday (1970-01-01 was a Thursday)
DayOfWeek(t) == ((t \div SecondsPerDay) + 3) % 7

\* 'YYYY-MM-DD HH:MM:SS', as its fields
FormatTimestamp(t) ==
    LET c == CivilFromDays(t \div SecondsPerDay)
        s == t % SecondsPerDay
    IN  [year |-> c.year, month |-> c.month, day |-> c.day,
         hour |-> s \div 3600, minute |-> (s % 3600) \div 60, second |-> s % 60]

(***************************************************************************)
(* generate_tnb_tou_data                                                   *)
(***************************************************************************)
FreqPerSecond(step) == step

\* the stride of freq = f'{time_step_minutes}min'
Freq(step) == step * SecondsPerMinute

EndDateInclusive(start, days, step) == start + days * SecondsPerDay

EndDateShort(start, days, step) ==
    start + days * SecondsPerDay - 2 * step * SecondsPerMinute

\* line 26: start + Timedelta(days) - Timedelta(minutes)
EndDate(start, days, step) ==
    start + days * SecondsPerDay - step * SecondsPerMinute

\* numpy.arange(b, e, stride): its length
ArangeLen(b, e, stride) ==
    LET n == 0 - FloorDiv(b - e, stride)    \* ceil((e - b) / stride)
    IN  IF n > 0 THEN n ELSE 0

\* pd.date_range(start, end, freq) for a fixed stride # 0: the instants
\* start, start + stride, ... up to and including end
DateRange(b, iend, stride) ==
    LET e == b + FloorDiv(iend - b, stride) * stride + FloorDiv(stride, 2) + 1
    IN  [k \in 1..ArangeLen(b, e, stride) |-> b + (k - 1) * stride]

IsWeekendSundayOnly(day_of_week) == day_of_week >= 6

\* line 36
IsWeekend(day_of_week) == day_of_week >= 5

IsPeakHourInclusive(hour) == PEAK_START_HOUR <= hour /\ hour <= PEAK_END_HOUR

\* line 41
IsPeakHour(hour) == PEAK_START_HOUR <= hour /\ hour < PEAK_END_HOUR

ClassifyNoWeekend(day_of_week, hour) ==
    IF IsPeakHour(hour) THEN PRICE_PEAK ELSE PRICE_OFF_PEAK

\* lines 36-46
Classify(day_of_week, hour) ==
    IF IsWeekend(day_of_week) THEN PRICE_OFF_PEAK
    ELSE IF IsPeakHour(hour) THEN PRICE_PEAK
    ELSE PRICE_OFF_PEAK

SharedPrices(old) == old

\* line 29: prices = []
FreshPrices(old) == << >>

\* lines 51-59
MakeFrame(index, ps) ==
    [k \in 1..Len(index) |->
        [Timestamp |-> index[k],
         Price_sen_per_kWh |-> ps[k],
         DayOfWeek |-> DayOfWeek(index[k]),
         Hour |-> Hour(index[k])]]

(***************************************************************************)
(* The CSV file                                                            *)
(***************************************************************************)
\* the file does not exist
NoFile == [exists |-> FALSE, lines |-> << >>]
\* the file as open(path, 'w') leaves it
EmptyFile == [exists |-> TRUE, lines |-> << >>]
Header == << "Timestamp", "Price_sen_per_kWh", "DayOfWeek", "Hour" >>

FormatPrice(p) == << p \div 100, p % 100 >>

FormatRow(r) ==
    << FormatTimestamp(r.Timestamp), FormatPrice(r.Price_sen_per_kWh),
       r.DayOfWeek, r.Hour >>

Head20(t) == SubSeq(t, 1, IF Len(t) < 20 THEN Len(t) ELSE 20)

(***************************************************************************)
(* Initial states: the call the module makes (lines 66-69) and calls with  *)
(* other arguments.                                                        *)
(***************************************************************************)
Init ==
    /\ \/ /\ start_date \in StartDates
          /\ num_days \in DaySet
          /\ time_step_minutes \in StepSet
       \/ /\ start_date = DefaultStart
          /\ num_days = NUM_DAYS_FOR_TRAINING
          /\ time_step_minutes = DefaultTimeStep
    /\ pc = "entry"
    /\ call = 1
    /\ end_date = 0
    /\ time_index = << >>
    /\ prices = << >>
    /\ it = 1
    /\ df = << >>
    /\ prev = << >>
    /\ file = NoFile
    /\ w = 1
    /\ stdout = << >>

\* line 26; pd.to_datetime raises on a string that is no calendar date
ComputeEndDate ==
    /\ pc = "entry"
    /\ IF IsValidDate(start_date)
       THEN /\ end_date' = EndDate(ToDatetime(start_date), num_days, time_step_minutes)
            /\ pc' = "range"
       ELSE /\ pc' = "raised"
            /\ UNCHANGED end_date
    /\ UNCHANGED << start_date, num_days, time_step_minutes, call, time_index,
                    prices, it, df, prev, file, w, stdout >>

\* lines 27-29; date_range divides by the stride and raises when it is 0
MakeTimeIndex ==
    /\ pc = "range"
    /\ IF Freq(time_step_minutes) # 0
       THEN /\ time_index' = DateRange(ToDatetime(start_date), end_date,
                                       Freq(time_step_minutes))
            /\ prices' = FreshPrices(prices)
            /\ it' = 1
            /\ pc' = "loop"
       ELSE /\ pc' = "raised"
            /\ UNCHANGED << time_index, prices, it >>
    /\ UNCHANGED << start_date, num_days, time_step_minutes, call, end_date,
                    df, prev, file, w, stdout >>

\* lines 31-48: one iteration of the for loop
LoopStep ==
    /\ pc = "loop"
    /\ it <= Len(time_index)
    /\ LET timestamp == time_index[it]
           hour == Hour(timestamp)
           day_of_week == DayOfWeek(timestamp)
       IN  prices' = Append(prices, Classify(day_of_week, hour))
    /\ it' = it + 1
    /\ UNCHANGED << start_date, num_days, time_step_minutes, pc, call, end_date,
                    time_index, df, prev, file, w, stdout >>

\* lines 51-60; pd.DataFrame raises when its columns differ in length
BuildFrame ==
    /\ pc = "loop"
    /\ it > Len(time_index)
    /\ IF Len(prices) = Len(time_index)
       THEN /\ df' = MakeFrame(time_index, prices)
            /\ pc' = "returned"
       ELSE /\ pc' = "raised"
            /\ UNCHANGED df
    /\ UNCHANGED << start_date, num_days, time_step_minutes, call, end_date,
                    time_index, prices, it, prev, file, w, stdout >>

\* the function is called once more with the same arguments
CallAgain ==
    /\ pc = "returned"
    /\ call = 1
    /\ call' = 2
    /\ prev' = df
    /\ df' = << >>
    /\ pc' = "entry"
    /\ UNCHANGED << start_date, num_days, time_step_minutes, end_date,
                    time_index, prices, it, file, w, stdout >>

\* line 73, to_csv: the file is opened for writing, which truncates it
OpenFile ==
    /\ pc = "returned"
    /\ file' = EmptyFile
    /\ pc' = "header"
    /\ UNCHANGED << start_date, num_days, time_step_minutes, call, end_date,
                    time_index, prices, it, df, prev, w, stdout >>

WriteHeader ==
    /\ pc = "header"
    /\ file' = [file EXCEPT !.lines = Append(@, Header)]
    /\ w' = 1
    /\ pc' = "rows"
    /\ UNCHANGED << start_date, num_days, time_step_minutes, call, end_date,
                    time_index, prices, it, df, prev, stdout >>

WriteRow ==
    /\ pc = "rows"
    /\ w <= Len(df)
    /\ file' = [file EXCEPT !.lines = Append(@, FormatRow(df[w]))]
    /\ w' = w + 1
    /\ UNCHANGED << start_date, num_days, time_step_minutes, pc, call, end_date,
                    time_index, prices, it, df, prev, stdout >>

CloseFile ==
    /\ pc = "rows"
    /\ w > Len(df)
    /\ pc' = "saved"
    /\ UNCHANGED << start_date, num_days, time_step_minutes, call, end_date,
                    time_index, prices, it, df, prev, file, w, stdout >>

\* the open or a write fails: the exception ends the program, the file
\* keeps what was written so far
IOFailure ==
    /\ pc \in {"returned", "header", "rows"}
    /\ pc' = "io_failed"
    /\ UNCHANGED << start_date, num_days, time_step_minutes, call, end_date,
                    time_index, prices, it, df, prev, file, w, stdout >>

\* lines 75-78
PrintSummary ==
    /\ pc = "saved"
    /\ stdout' = << Len(df), Head20(df) >>
    /\ pc' = "done"
    /\ UNCHANGED << start_date, num_days, time_step_minutes, call, end_date,
                    time_index, prices, it, df, prev, file, w >>

Next ==
    \/ ComputeEndDate
    \/ MakeTimeIndex
    \/ LoopStep
    \/ BuildFrame
    \/ CallAgain
    \/ OpenFile
    \/ WriteHeader
    \/ WriteRow
    \/ CloseFile
    \/ IOFailure
    \/ PrintSummary

Spec == Init /\ [][Next]_vars

(***************************************************************************)
(* Properties                                                              *)
(***************************************************************************)
Returned == pc = "returned"
ValidInput == IsValidDate(start_date) /\ num_days >= 1 /\ time_step_minutes >= 1
Start == ToDatetime(start_date)
MinutesInRange == num_days * 1440
IsDefaultRun ==
    /\ start_date = DefaultStart
    /\ num_days = NUM_DAYS_FOR_TRAINING
    /\ time_step_minutes = DefaultTimeStep
PeakRows == {k \in 1..Len(df) : df[k].Price_sen_per_kWh = PRICE_PEAK}
RowTimestamps == {df[r].Timestamp : r \in 1..Len(df)}

\* C1: for a valid start_date, num_days >= 1 and time_step_minutes >= 1 the
\* function returns (it does not raise) a table of exactly
\* floor(num_days * 1440 / time_step_minutes) rows, also when the step does
\* not divide 1440 and when it exceeds num_days * 1440 (0 rows).
C1_RowCount ==
    ValidInput =>
        /\ pc # "raised"
        /\ Returned => Len(df) = MinutesInRange \div time_step_minutes

C1_Witness ==
    /\ Returned /\ ValidInput
    /\ MinutesInRange % time_step_minutes # 0
    /\ Len(df) >= 2

C1_WitnessEmpty ==
    Returned /\ ValidInput /\ time_step_minutes > MinutesInRange /\ Len(df) = 0

\* C2: in the returned table consecutive rows differ by exactly
\* time_step_minutes minutes, for every valid input.
C2_UniformStep ==
    (Returned /\ ValidInput) =>
        \A k \in 1..(Len(df) - 1) :
            df[k + 1].Timestamp - df[k].Timestamp
                = time_step_minutes * SecondsPerMinute

C2_Witness ==
    /\ Returned /\ ValidInput /\ Len(df) >= 3
    /\ MinutesInRange % time_step_minutes # 0

\* C3 as stated: for a valid input with a non-empty result the first row is
\* start_date, every row lies in [start_date, start_date + num_days*24h), and
\* every instant start_date + k*time_step_minutes inside that range is a row.
C3_Original ==
    (Returned /\ ValidInput /\ Len(df) > 0) =>
        /\ df[1].Timestamp = Start
        /\ \A k \in 1..Len(df) :
              /\ Start <= df[k].Timestamp
              /\ df[k].Timestamp < Start + num_days * SecondsPerDay
        /\ \A k \in 0..(MinutesInRange \div time_step_minutes) :
              k * time_step_minutes < MinutesInRange =>
                  Start + k * time_step_minutes * SecondsPerMinute
                      \in RowTimestamps

\* C3 amended: for a valid input with a non-empty result the first row is
\* start_date, every row lies in [start_date, start_date + num_days*24h), and
\* every instant start_date + k*time_step_minutes whose whole step still
\* fits in the range ((k+1)*time_step_minutes <= num_days*1440) is a row.
C3_Amended ==
    (Returned /\ ValidInput /\ Len(df) > 0) =>
        /\ df[1].Timestamp = Start
        /\ \A k \in 1..Len(df) :
              /\ Start <= df[k].Timestamp
              /\ df[k].Timestamp < Start + num_days * SecondsPerDay
        /\ \A k \in 0..(MinutesInRange \div time_step_minutes) :
              (k + 1) * time_step_minutes <= MinutesInRange =>
                  Start + k * time_step_minutes * SecondsPerMinute
                      \in RowTimestamps

C3_Witness ==
    /\ Returned /\ ValidInput /\ Len(df) >= 2
    /\ MinutesInRange % time_step_minutes # 0
    /\ df[Len(df)].Timestamp
           = Start + (Len(df) - 1) * time_step_minutes * SecondsPerMinute

\* C4: every row whose DayOfWeek is 5 or 6 has price PRICE_OFF_PEAK, at every
\* hour; the 2-day hourly run from Saturday 2025-01-11 has 48 rows, all at
\* PRICE_OFF_PEAK.
C4_WeekendOffPeak ==
    Returned =>
        /\ \A k \in 1..Len(df) :
              df[k].DayOfWeek \in {5, 6} =>
                  df[k].Price_sen_per_kWh = PRICE_OFF_PEAK
        /\ (start_date = Date(2025, 1, 11, 0, 0) /\ num_days = 2
                /\ time_step_minutes = 60) =>
              /\ Len(df) = 48
              /\ \A k \in 1..48 : df[k].Price_sen_per_kWh = PRICE_OFF_PEAK

C4_Witness ==
    /\ Returned
    /\ start_date = Date(2025, 1, 11, 0, 0)
    /\ num_days = 2
    /\ time_step_minutes = 60
    /\ \E k \in 1..Len(df) : df[k].DayOfWeek = 5 /\ df[k].Hour = 14
    /\ \E k \in 1..Len(df) : df[k].DayOfWeek = 6 /\ df[k].Hour = 21

RowAt(h, mi) ==
    {k \in 1..Len(df) :
        FormatTimestamp(df[k].Timestamp) = Date(2025, 1, 6, h, mi)}

\* C5: every row whose DayOfWeek is in 0..4 has price PRICE_PEAK exactly when
\* 14 <= Hour < 22 and PRICE_OFF_PEAK otherwise, no row has a third price,
\* and the rows at 2025-01-06 14:00 and 21:45 are peak, the row at 22:00 is
\* off-peak.
C5_WeekdayPeak ==
    Returned =>
        /\ \A k \in 1..Len(df) :
              /\ df[k].Price_sen_per_kWh \in {PRICE_OFF_PEAK, PRICE_PEAK}
              /\ df[k].DayOfWeek \in 0..4 =>
                    (df[k].Price_sen_per_kWh = PRICE_PEAK
                        <=> (14 <= df[k].Hour /\ df[k].Hour < 22))
        /\ \A k \in RowAt(14, 0) \cup RowAt(21, 45) :
              df[k].Price_sen_per_kWh = PRICE_PEAK
        /\ \A k \in RowAt(22, 0) : df[k].Price_sen_per_kWh = PRICE_OFF_PEAK

C5_Witness ==
    /\ Returned
    /\ start_date = DefaultStart /\ num_days = 1 /\ time_step_minutes = 15
    /\ Len(df) = 96
    /\ RowAt(14, 0) # {} /\ RowAt(21, 45) # {} /\ RowAt(22, 0) # {}

\* C6 as stated: when num_days <= 0 or time_step_minutes <= 0 the function
\* raises (it returns no table) and nothing is written to the file.
C6_Original ==
    (num_days <= 0 \/ time_step_minutes <= 0) =>
        /\ pc \in {"entry", "range", "raised"}
        /\ file = NoFile

\* the weekday of each valid start date, from the calendar (0 = Monday)
KnownWeekday(s) ==
    IF s = Date(2025, 1, 6, 0, 0) \/ s = Date(2025, 1, 6, 13, 30) THEN 0
    ELSE IF s = Date(2025, 1, 10, 0, 0) THEN 4
    ELSE IF s = Date(2025, 1, 11, 0, 0) THEN 5
    ELSE 2

\* C7: in row k (counted from 0) Hour is
\* floor(((m0 + k*step) mod 1440) / 60) and DayOfWeek is
\* (d0 + floor((m0 + k*step) / 1440)) mod 7, where d0 is the weekday and m0
\* the minute of the day of start_date; the price of the row is the
\* classification of these two values; the default start gives DayOfWeek 0
\* and Hour 0 in the first row.
C7_DerivedColumns ==
    (Returned /\ ValidInput) =>
        LET d0 == KnownWeekday(start_date)
            m0 == start_date.hour * 60 + start_date.minute
        IN  /\ \A k \in 1..Len(df) :
                  LET m == m0 + (k - 1) * time_step_minutes
                  IN  /\ df[k].Hour = (m % 1440) \div 60
                      /\ df[k].Hour \in 0..23
                      /\ df[k].DayOfWeek = (d0 + m \div 1440) % 7
                      /\ df[k].DayOfWeek \in 0..6
                      /\ df[k].Price_sen_per_kWh
                             = IF df[k].DayOfWeek >= 5 THEN 3443
                               ELSE IF 14 <= df[k].Hour /\ df[k].Hour < 22
                                    THEN 3852
                               ELSE 3443
            /\ (start_date = DefaultStart /\ Len(df) > 0) =>
                  df[1].DayOfWeek = 0 /\ df[1].Hour = 0

C7_Witness ==
    /\ Returned /\ ValidInput
    /\ start_date = Date(2024, 2, 28, 21, 50)
    /\ \E k \in 1..Len(df) : df[k].DayOfWeek = 5 /\ df[k].Hour = 0
    /\ \E k \in 1..Len(df) : df[k].DayOfWeek = 3 /\ df[k].Hour = 14

\* C8: a second call with the same arguments ends as the first one did and
\* returns the same table: same rows, same order, same values.
C8_Deterministic ==
    (call = 2 /\ pc \in {"returned", "raised"}) =>
        pc = "returned" /\ df = prev

C8_Witness ==
    /\ call = 2 /\ Returned /\ ValidInput
    /\ Len(df) >= 2
    /\ df = prev
    /\ PeakRows # {}

CsvOf(t) == << Header >> \o [k \in 1..Len(t) |-> FormatRow(t[k])]

\* C9 as stated: in every state the file holds nothing of this run's output
\* or the header followed by every row of the table in order, also after an
\* I/O failure during the write.
C9_Original ==
    file \in {NoFile, EmptyFile} \/ (file.exists /\ file.lines = CsvOf(df))

AtMidnight == start_date.hour = 0 /\ start_date.minute = 0
DayOfRow(k) == (df[k].Timestamp - Start) \div SecondsPerDay
SecondOfDay(k) == df[k].Timestamp % SecondsPerDay
IsPeakRow(k) == df[k].Price_sen_per_kWh = PRICE_PEAK

\* C10: for a start at midnight and a step that divides 60, the price rises
\* only at a row stamped 14:00 on a weekday and falls only at a row stamped
\* 22:00 of the same day; every weekday of the range has one contiguous run
\* of exactly 480/step peak rows and every weekend day has none; the default
\* run has 704 peak rows out of 2880.
C10_PeakRuns ==
    (Returned /\ ValidInput /\ AtMidnight /\ 60 % time_step_minutes = 0) =>
        /\ \A k \in 1..Len(df) :
              /\ (IsPeakRow(k) /\ (k = 1 \/ ~IsPeakRow(k - 1))) =>
                    /\ SecondOfDay(k) = 14 * 3600
                    /\ df[k].DayOfWeek \in 0..4
              /\ (k > 1 /\ ~IsPeakRow(k) /\ IsPeakRow(k - 1)) =>
                    /\ SecondOfDay(k) = 22 * 3600
                    /\ DayOfRow(k) = DayOfRow(k - 1)
                    /\ df[k].DayOfWeek = df[k - 1].DayOfWeek
        /\ \A j \in 0..(num_days - 1) :
              LET peak == {k \in 1..Len(df) : DayOfRow(k) = j /\ IsPeakRow(k)}
              IN  IF (KnownWeekday(start_date) + j) % 7 <= 4
                  THEN /\ Cardinality(peak) = 480 \div time_step_minutes
                       /\ \E a \in peak :
                             peak = a .. (a + Cardinality(peak) - 1)
                  ELSE peak = {}
        /\ IsDefaultRun => Len(df) = 2880 /\ Cardinality(PeakRows) = 704

C10_Witness ==
    /\ Returned /\ ValidInput
    /\ start_date = Date(2025, 1, 10, 0, 0)
    /\ num_days = 3
    /\ time_step_minutes = 15
    /\ Cardinality(PeakRows) = 32
    /\ \E k \in 2..Len(df) : ~IsPeakRow(k) /\ IsPeakRow(k - 1)
    /\ \E k \in 1..Len(df) : df[k].DayOfWeek = 6 /\ df[k].Hour = 14

====
